---- MODULE Spec2Model ----
(***************************************************************************)
(* A model of SEOTechnicalAnalyzer (src/tools/audit.py) and of the way     *)
(* src/app.py drives it: an analyzer object is constructed for a URL,      *)
(* analyze() fetches the page, runs the ten inspectors one after the       *)
(* other on the parsed document and builds the report.                     *)
(*                                                                         *)
(* Python values are modelled as follows.  A str is a TLA+ string; a list  *)
(* is a sequence; a dict is a record; an optional value (None or a value)  *)
(* is a sequence of length 0 or 1.  The parsed document is a record of the *)
(* facets the inspectors read.                                             *)
(***************************************************************************)
EXTENDS Integers, Sequences, FiniteSets, TLC

VARIABLES
    url,        \* self.url
    doc,        \* the page served at url (what BeautifulSoup parses)
    obj,        \* identity of the current analyzer object
    calls,      \* number of analyze() calls made on the current object
    pc,         \* position of the current analyze() call
    issues,     \* self.issues
    warnings,   \* self.warnings
    info,       \* self.info
    ret,        \* value returned by the current analyze() call (optional)
    exc,        \* name of the exception that escaped analyze() ("" if none)
    fetchError, \* str(e) of the RequestException the fetch raised (optional)
    ran,        \* inspectors invoked by the current analyze() call, in order
    last,       \* what the inspector invoked last appended
    before,     \* the accumulators as they were when analyze() was called
    clock,      \* datetime.now(): one tick per analyze() call
    reports     \* the reports returned so far, as jsonify sent them, oldest first

vars == <<url, doc, obj, calls, pc, issues, warnings, info, ret, exc,
          fetchError, ran,
          last, before, clock, reports>>

(***************************************************************************)
(* Bounds of the model.                                                    *)
(***************************************************************************)
\* analyze() calls in one behaviour, over all analyzer objects
MaxRuns == 2
\* longest title text of the title sweep
MaxTitleLen == 61
\* longest description content of the description sweep
MaxDescLen == 156

(***************************************************************************)
(* Program constants.                                                      *)
(***************************************************************************)
TITLE_MIN == 30
TITLE_MAX == 60
DESC_MIN == 70
DESC_MAX == 155
IMAGE_MAX_DIM == 1000
PAGE_MAX_SIZE == 100000

(***************************************************************************)
(* Strings.                                                                *)
(***************************************************************************)
\* p in s (Python substring test)
Contains(p, s) ==
    \E i \in 1..(Len(s) - Len(p) + 1) : SubSeq(s, i, i + Len(p) - 1) = p

\* s.startswith(p)
StartsWith(s, p) == Len(s) >= Len(p) /\ SubSeq(s, 1, Len(p)) = p

Digits == <<"0", "1", "2", "3", "4", "5", "6", "7", "8", "9">>

\* s.isdigit(), for ASCII text
IsDigit(s) ==
    /\ Len(s) > 0
    /\ \A i \in 1..Len(s) : \E d \in 1..10 : SubSeq(s, i, i) = Digits[d]

DigitValue(c) == (CHOOSE d \in 1..10 : Digits[d] = c) - 1

\* int(s), for a string of ASCII digits
RECURSIVE ParseInt(_)
ParseInt(s) ==
    IF Len(s) = 0 THEN 0
    ELSE 10 * ParseInt(SubSeq(s, 1, Len(s) - 1)) + DigitValue(SubSeq(s, Len(s), Len(s)))

Upper == "ABCDEFGHIJKLMNOPQRSTUVWXYZ"
LowerLetters == "abcdefghijklmnopqrstuvwxyz"

LowerChar(c) ==
    IF \E k \in 1..26 : SubSeq(Upper, k, k) = c
    THEN LET k == CHOOSE k \in 1..26 : SubSeq(Upper, k, k) = c
         IN SubSeq(LowerLetters, k, k)
    ELSE c

\* s.lower(), for ASCII text
RECURSIVE Lower(_)
Lower(s) ==
    IF Len(s) = 0 THEN ""
    ELSE LowerChar(SubSeq(s, 1, 1)) \o Lower(SubSeq(s, 2, Len(s)))

\* a text of n characters
RECURSIVE Text(_)
Text(n) ==
    IF n = 0 THEN ""
    ELSE IF n % 2 = 0 THEN LET half == Text(n \div 2) IN half \o half
    ELSE "x" \o Text(n - 1)

\* f"{page_size/1000:.1f}": kilobytes rounded to the nearest tenth (the
\* page sizes of the model are never half-way between two tenths)
FormatKB(size) ==
    LET tenths == (size + 50) \div 100
    IN ToString(tenths \div 10) \o "." \o ToString(tenths % 10)

\* truthiness of an optional string: None and "" are both false
Truthy(opt) == opt # <<>> /\ opt[1] # ""

(***************************************************************************)
(* The pages analysed.  A page is a record of facets:                      *)
(*   title        optional text of the <title> element ("" when the        *)
(*                element has no string child);                            *)
(*   description  optional content of <meta name="description"> ("" when   *)
(*                the attribute is empty or absent);                       *)
(*   headings     levels of the h1..h6 elements, in document order;        *)
(*   images       the <img> elements: alt, width, height ("" when empty or *)
(*                absent) and optional src;                                *)
(*   canonical    optional href of <link rel="canonical"> ("" when empty   *)
(*                or absent);                                              *)
(*   robots, googlebot  optional content of these meta elements;           *)
(*   ldjson       number of <script type="application/ld+json"> elements;  *)
(*   mentionsSchema  whether str(soup) contains "schema.org";              *)
(*   size         len(str(soup));                                          *)
(*   viewport     whether <meta name="viewport"> exists;                   *)
(*   url          the URL the page is served at.                           *)
(***************************************************************************)
HttpsUrl == "https://a.example/"
HttpUrl == "http://a.example/"
OtherUrl == "https://a.example/other"

Img(alt, src, w, h) == [alt |-> alt, src |-> src, width |-> w, height |-> h]

BasePage ==
    [ title          |-> <<Text(45)>>,
      description    |-> <<Text(100)>>,
      headings       |-> <<1, 2, 3>>,
      images         |-> <<Img("logo", <<"a.png">>, "100", "100")>>,
      canonical      |-> <<HttpsUrl>>,
      robots         |-> <<"index, follow">>,
      googlebot      |-> <<>>,
      ldjson         |-> 1,
      mentionsSchema |-> TRUE,
      size           |-> 5000,
      viewport       |-> TRUE,
      url            |-> HttpsUrl ]

Facets == DOMAIN BasePage

FacetValues(f) ==
    CASE f = "title" ->
           {<<>>, <<"">>, <<Text(TITLE_MIN - 1)>>, <<Text(TITLE_MAX + 1)>>}
      [] f = "description" ->
           {<<>>, <<"">>, <<Text(DESC_MIN - 1)>>, <<Text(DESC_MAX + 1)>>}
      [] f = "headings" ->
           {<<>>, <<1, 1>>, <<1, 2, 4>>, <<1, 3, 2>>, <<2, 3>>}
      [] f = "images" ->
           { <<>>,
             <<Img("", <<"a.png">>, "", ""), Img("", <<>>, "10", "")>>,
             <<Img("a", <<"a.png">>, "1000", "1000")>>,
             <<Img("a", <<"a.png">>, "1001", "10")>>,
             <<Img("a", <<"a.png">>, "100px", "2000")>>,
             <<Img("a", <<>>, "10", "1001")>> }
      [] f = "canonical" -> {<<>>, <<"">>, <<OtherUrl>>}
      [] f = "robots" ->
           {<<>>, <<"noindex">>, <<"nofollow">>, <<"NOINDEX, NOFOLLOW">>}
      [] f = "googlebot" -> {<<"noindex">>}
      [] f = "ldjson" -> {0}
      [] f = "mentionsSchema" -> {FALSE}
      [] f = "size" -> {PAGE_MAX_SIZE, PAGE_MAX_SIZE + 1}
      [] f = "viewport" -> {FALSE}
      [] f = "url" -> {HttpUrl}

\* the base page and every page that differs from it in one or two facets
NearPages ==
    UNION { UNION { { [[BasePage EXCEPT ![f] = v] EXCEPT ![g] = w] :
                        v \in FacetValues(f) \cup {BasePage[f]},
                        w \in FacetValues(g) \cup {BasePage[g]} } :
                    g \in Facets } :
            f \in Facets }

\* every title length up to MaxTitleLen, and every description length up to
\* MaxDescLen, on the base page
TitleSweep == { [BasePage EXCEPT !.title = <<Text(n)>>] : n \in 0..MaxTitleLen }
DescSweep == { [BasePage EXCEPT !.description = <<Text(n)>>] : n \in 0..MaxDescLen }

Pages == NearPages \cup TitleSweep \cup DescSweep

\* str(e) of the requests.RequestException a failed fetch raises
FetchErrors(u) ==
    { "Connection refused", "404 Client Error: Not Found for url: " \o u }

(***************************************************************************)
(* The inspectors.  Each is given the parsed document and the target URL   *)
(* and yields what it appends to self.issues, self.warnings and self.info, *)
(* and the exception it raises ("" when it returns).                       *)
(***************************************************************************)
Finding(category, issue, impact, recommendation) ==
    [ category |-> category, issue |-> issue, impact |-> impact,
      recommendation |-> recommendation ]

Out(i, w, n, e) == [issues |-> i, warnings |-> w, info |-> n, exc |-> e]

Nothing == Out(<<>>, <<>>, <<>>, "")

TitleTooLongInclusive(length) == length >= TITLE_MAX

\* elif length > 60
TitleTooLong(length) == length > TITLE_MAX

\* Tag.string: None when the element has no string child
TagString(text) == IF text = "" THEN <<>> ELSE <<text>>

_analyze_title(soup, u) ==
    LET title == IF soup.title # <<>> THEN TagString(soup.title[1]) ELSE <<>>
    IN IF ~Truthy(title)
       THEN Out(<<Finding("Title Tag", "Missing title tag",
                    "Critical - Title tags are crucial for SEO and user experience",
                    "Add a descriptive title tag between 30-60 characters")>>,
                <<>>, <<>>, "")
       ELSE LET length == Len(title[1])
            IN IF length < TITLE_MIN
               THEN Out(<<Finding("Title Tag",
                            "Title too short (" \o ToString(length)
                                \o " characters): " \o title[1],
                            "High - Short titles may not be descriptive enough for search engines and users",
                            "Expand title to be between 30-60 characters")>>,
                        <<>>, <<>>, "")
               ELSE IF TitleTooLong(length)
               THEN Out(<<Finding("Title Tag",
                            "Title too long (" \o ToString(length)
                                \o " characters): " \o title[1],
                            "Medium - Long titles will be truncated in search results",
                            "Reduce title length to be between 30-60 characters")>>,
                        <<>>, <<>>, "")
               ELSE Nothing

_analyze_meta_description(soup, u) ==
    LET meta_desc == soup.description
    IN IF meta_desc = <<>>
       THEN Out(<<Finding("Meta Description", "Missing meta description",
                    "High - Meta descriptions are important for CTR in search results",
                    "Add a compelling meta description between 70-155 characters")>>,
                <<>>, <<>>, "")
       ELSE IF Truthy(meta_desc)
       THEN LET length == Len(meta_desc[1])
            IN IF length < DESC_MIN
               THEN Out(<<>>,
                        <<Finding("Meta Description",
                            "Description too short (" \o ToString(length) \o " characters)",
                            "Medium - Short descriptions may not provide enough context",
                            "Expand description to be between 70-155 characters")>>,
                        <<>>, "")
               ELSE IF length > DESC_MAX
               THEN Out(<<>>,
                        <<Finding("Meta Description",
                            "Description too long (" \o ToString(length) \o " characters)",
                            "Low - Long descriptions will be truncated in search results",
                            "Reduce description length to be between 70-155 characters")>>,
                        <<>>, "")
               ELSE Nothing
       ELSE Nothing

\* the levels in s equal to i, in the order they have in s
LevelsAt(s, i) == SelectSeq(s, LAMBDA h : h = i)

\* the headings list: all h1 elements, then all h2 elements, ..., then all h6
CollectHeadings(soup) ==
    LevelsAt(soup.headings, 1) \o LevelsAt(soup.headings, 2)
        \o LevelsAt(soup.headings, 3) \o LevelsAt(soup.headings, 4)
        \o LevelsAt(soup.headings, 5) \o LevelsAt(soup.headings, 6)

SkipWarning(prev_level, current_level) ==
    Finding("Heading Structure",
        "Skipped heading level (from H" \o ToString(prev_level) \o " to H"
            \o ToString(current_level) \o ")",
        "Medium - Improper heading hierarchy affects accessibility and SEO",
        "Maintain proper heading hierarchy (H1 -> H2 -> H3)")

\* the loop over headings, from position k on, prev_level being the level
\* of the heading before position k (0 before the first)
RECURSIVE SkipWarnings(_, _, _)
SkipWarnings(headings, k, prev_level) ==
    IF k > Len(headings) THEN <<>>
    ELSE (IF headings[k] - prev_level > 1
          THEN <<SkipWarning(prev_level, headings[k])>> ELSE <<>>)
         \o SkipWarnings(headings, k + 1, headings[k])

_analyze_headings(soup, u) ==
    LET headings == CollectHeadings(soup)
        h1_count == Len(LevelsAt(headings, 1))
    IN Out(IF h1_count = 0
           THEN <<Finding("Heading Structure", "Missing H1 heading",
                    "High - H1 is a crucial signal for page topic and structure",
                    "Add a single, descriptive H1 heading")>>
           ELSE <<>>,
           (IF h1_count > 1
            THEN <<Finding("Heading Structure",
                     "Multiple H1 headings found (" \o ToString(h1_count) \o ")",
                     "Medium - Multiple H1s can confuse page hierarchy",
                     "Use only one H1 heading per page")>>
            ELSE <<>>)
           \o SkipWarnings(headings, 1, 0),
           <<>>, "")

IsLarge(img) ==
    /\ img.width # ""
    /\ img.height # ""
    /\ IsDigit(img.width)
    /\ IsDigit(img.height)
    /\ (ParseInt(img.width) > IMAGE_MAX_DIM \/ ParseInt(img.height) > IMAGE_MAX_DIM)

_analyze_images(soup, u) ==
    LET images == soup.images
        missing_alt == SelectSeq(images, LAMBDA img : img.alt = "")
        large == SelectSeq(images, IsLarge)
    IN IF \E k \in 1..Len(large) : large[k].src = <<>>
       THEN \* img["src"] of an image without src
            Out(<<>>, <<>>, <<>>, "KeyError")
       ELSE Out((IF Len(missing_alt) > 0
                 THEN <<Finding("Image Optimization",
                          "Missing alt text on " \o ToString(Len(missing_alt)) \o " images",
                          "High - Alt text is crucial for accessibility and image SEO",
                          "Add descriptive alt text to all images")>>
                 ELSE <<>>)
                \o (IF Len(large) > 0
                    THEN <<Finding("Image Optimization",
                             "Found " \o ToString(Len(large))
                                 \o " images exceeding 1000px in width or height",
                             "Medium - Large images can slow down page load times",
                             "Optimize large images by resizing or compressing them")>>
                    ELSE <<>>),
                <<>>, <<>>, "")

_analyze_canonical(soup, u) ==
    LET canonical == soup.canonical
    IN IF canonical # <<>>
       THEN Out(<<Finding("Canonical Tag", "Missing canonical tag",
                    "High - Canonical tags help prevent duplicate content issues",
                    "Add a canonical tag pointing to the preferred URL")>>,
                <<>>, <<>>, "")
       ELSE \* canonical is None here: canonical.get("href") raises, and the
            \* comparison of the href with the URL below it is never reached
            Out(<<>>, <<>>, <<>>, "AttributeError")

\* as _analyze_robots, the missing-tag finding appended to self.issues
RobotsMissingAsIssue(soup, u) ==
    LET robots_meta == IF soup.robots # <<>> THEN soup.robots ELSE soup.googlebot
    IN IF robots_meta = <<>>
       THEN Out(<<Finding("Robots Meta", "Missing robots meta tag",
                    "Low - Default behavior allows indexing and following",
                    "Consider adding robots meta tag for explicit control")>>,
                <<>>, <<>>, "")
       ELSE LET content == Lower(robots_meta[1])
            IN Out(IF Contains("noindex", content)
                   THEN <<Finding("Robots Meta", "Page is set to noindex",
                            "Critical - Page will not be indexed by search engines",
                            "Remove noindex if page should be indexed")>>
                   ELSE <<>>,
                   IF Contains("nofollow", content)
                   THEN <<Finding("Robots Meta", "Page is set to nofollow",
                            "High - Links on page won't pass authority",
                            "Remove nofollow if links should be followed")>>
                   ELSE <<>>,
                   <<>>, "")

_analyze_robots(soup, u) ==
    LET robots_meta == IF soup.robots # <<>> THEN soup.robots ELSE soup.googlebot
    IN IF robots_meta = <<>>
       THEN Out(<<>>,
                <<Finding("Robots Meta", "Missing robots meta tag",
                    "Low - Default behavior allows indexing and following",
                    "Consider adding robots meta tag for explicit control")>>,
                <<>>, "")
       ELSE LET content == Lower(robots_meta[1])
            IN Out(IF Contains("noindex", content)
                   THEN <<Finding("Robots Meta", "Page is set to noindex",
                            "Critical - Page will not be indexed by search engines",
                            "Remove noindex if page should be indexed")>>
                   ELSE <<>>,
                   IF Contains("nofollow", content)
                   THEN <<Finding("Robots Meta", "Page is set to nofollow",
                            "High - Links on page won't pass authority",
                            "Remove nofollow if links should be followed")>>
                   ELSE <<>>,
                   <<>>, "")

_analyze_schema(soup, u) ==
    LET schema_scripts == soup.ldjson
        schema_found == soup.mentionsSchema
    IN IF ~schema_found /\ schema_scripts = 0
       THEN Out(<<>>,
                <<Finding("Structured Data", "No schema.org structured data found",
                    "Medium - Structured data helps search engines understand content",
                    "Add relevant schema.org markup for your content type")>>,
                <<>>, "")
       ELSE Out(<<>>, <<>>,
                <<[ category |-> "Structured Data",
                    message |-> "Found " \o ToString(schema_scripts)
                                    \o " schema.org scripts" ]>>,
                "")

_analyze_performance(soup, u) ==
    LET page_size == soup.size
    IN IF page_size > PAGE_MAX_SIZE
       THEN Out(<<>>,
                <<Finding("Performance",
                    "Large page size (" \o FormatKB(page_size) \o "KB)",
                    "Medium - Large pages load slower and may affect Core Web Vitals",
                    "Optimize page size by minimizing HTML, CSS, and JavaScript")>>,
                <<>>, "")
       ELSE Nothing

_analyze_mobile_friendliness(soup, u) ==
    IF ~soup.viewport
    THEN Out(<<Finding("Mobile Optimization", "Missing viewport meta tag",
                 "High - Page may not be mobile-friendly",
                 "Add proper viewport meta tag for mobile devices")>>,
             <<>>, <<>>, "")
    ELSE Nothing

_analyze_ssl(soup, u) ==
    IF ~StartsWith(u, "https")
    THEN Out(<<Finding("Security", "Not using HTTPS",
                 "High - HTTPS is a ranking factor and security requirement",
                 "Implement SSL/HTTPS on your website")>>,
             <<>>, <<>>, "")
    ELSE Nothing

\* the filter left out: every issue is kept
ImpactFilterAll(iss, label) == iss

\* [issue for issue in self.issues if label in issue.get("impact", "")]
ImpactFilter(iss, label) == SelectSeq(iss, LAMBDA issue : Contains(label, issue.impact))

_generate_report(u, iss, warn, inf, now) ==
    [ report             |-> "SEO Technical Analysis Report for " \o u \o " ",
      url                |-> u,
      scan_date          |-> now,
      critical_issues    |-> ImpactFilter(iss, "Critical"),
      high_impact_issues |-> ImpactFilter(iss, "High"),
      warnings           |-> warn,
      info               |-> inf,
      total_issues       |-> Len(iss),
      total_warnings     |-> Len(warn) ]

(***************************************************************************)
(* The analyzer object and analyze().                                      *)
(***************************************************************************)
Snapshot(iss, warn, inf) == [issues |-> iss, warnings |-> warn, info |-> inf]

Init ==
    /\ \E page \in Pages : doc = page /\ url = page.url
    /\ obj = 1
    /\ calls = 0
    /\ pc = "idle"
    /\ issues = <<>>
    /\ warnings = <<>>
    /\ info = <<>>
    /\ ret = <<>>
    /\ exc = ""
    /\ fetchError = <<>>
    /\ ran = <<>>
    /\ last = Nothing
    /\ before = Snapshot(<<>>, <<>>, <<>>)
    /\ clock = 0
    /\ reports = <<>>

\* as Construct, the three lists shared by all analyzer objects
ConstructSharedLists ==
    /\ pc \in {"returned", "raised"}
    /\ clock < MaxRuns
    /\ obj' = obj + 1
    /\ calls' = 0
    /\ pc' = "idle"
    /\ ret' = <<>>
    /\ exc' = ""
    /\ fetchError' = <<>>
    /\ ran' = <<>>
    /\ last' = Nothing
    /\ before' = Snapshot(issues, warnings, info)
    /\ UNCHANGED <<url, doc, clock, issues, warnings, info, reports>>

\* analyzer = SEOTechnicalAnalyzer(url): the next request's analyzer
Construct ==
    /\ pc \in {"returned", "raised"}
    /\ clock < MaxRuns
    /\ obj' = obj + 1
    /\ calls' = 0
    /\ pc' = "idle"
    /\ issues' = <<>>
    /\ warnings' = <<>>
    /\ info' = <<>>
    /\ ret' = <<>>
    /\ exc' = ""
    /\ fetchError' = <<>>
    /\ ran' = <<>>
    /\ last' = Nothing
    /\ before' = Snapshot(<<>>, <<>>, <<>>)
    /\ UNCHANGED <<url, doc, clock, reports>>

\* analyzer.analyze() is called, on a new object or once more on the same one
Call ==
    /\ pc \in {"idle", "returned", "raised"}
    /\ clock < MaxRuns
    /\ pc' = "fetch"
    /\ calls' = calls + 1
    /\ clock' = clock + 1
    /\ ret' = <<>>
    /\ exc' = ""
    /\ fetchError' = <<>>
    /\ ran' = <<>>
    /\ last' = Nothing
    /\ before' = Snapshot(issues, warnings, info)
    /\ UNCHANGED <<url, doc, obj, issues, warnings, info, reports>>

\* requests.get, raise_for_status and BeautifulSoup succeed
FetchOk ==
    /\ pc = "fetch"
    /\ pc' = "title"
    /\ UNCHANGED <<url, doc, obj, calls, issues, warnings, info, ret, exc,
                   fetchError, ran, last, before, clock, reports>>

\* as FetchFail, the exception not caught
FetchFailUncaught ==
    /\ pc = "fetch"
    /\ \E e \in FetchErrors(url) : fetchError' = <<e>>
    /\ exc' = "RequestException"
    /\ pc' = "raised"
    /\ UNCHANGED <<url, doc, obj, calls, issues, warnings, info, ret, ran,
                   last, before, clock, reports>>

\* requests.get or raise_for_status raises a RequestException e
FetchFail ==
    /\ pc = "fetch"
    /\ \E e \in FetchErrors(url) :
         /\ fetchError' = <<e>>
         /\ ret' = <<[error |-> "Failed to fetch URL: " \o e]>>
    /\ pc' = "returned"
    /\ UNCHANGED <<url, doc, obj, calls, issues, warnings, info, exc, ran,
                   last, before, clock, reports>>

\* as Inspect, an inspector's exception noted in exc and analyze() going on
InspectSwallowing(name, out, next) ==
    /\ pc = name
    /\ ran' = Append(ran, name)
    /\ last' = out
    /\ issues' = issues \o out.issues
    /\ warnings' = warnings \o out.warnings
    /\ info' = info \o out.info
    /\ exc' = IF out.exc # "" THEN out.exc ELSE exc
    /\ pc' = next
    /\ UNCHANGED <<url, doc, obj, calls, ret, fetchError, before, clock, reports>>

\* One inspector call of analyze(): the inspector at position name appends
\* what it finds and analyze() goes on to next, or the inspector raises and
\* the exception, which is no RequestException, leaves analyze().
Inspect(name, out, next) ==
    /\ pc = name
    /\ ran' = Append(ran, name)
    /\ last' = out
    /\ issues' = issues \o out.issues
    /\ warnings' = warnings \o out.warnings
    /\ info' = info \o out.info
    /\ exc' = out.exc
    /\ pc' = IF out.exc = "" THEN next ELSE "raised"
    /\ UNCHANGED <<url, doc, obj, calls, ret, fetchError, before, clock, reports>>

AnalyzeTitle == Inspect("title", _analyze_title(doc, url), "meta_description")

AnalyzeMetaDescription ==
    Inspect("meta_description", _analyze_meta_description(doc, url), "headings")

AnalyzeHeadings == Inspect("headings", _analyze_headings(doc, url), "images")

AnalyzeImages == Inspect("images", _analyze_images(doc, url), "canonical")

AnalyzeCanonical == Inspect("canonical", _analyze_canonical(doc, url), "robots")

AnalyzeRobots == Inspect("robots", _analyze_robots(doc, url), "schema")

AnalyzeSchema == Inspect("schema", _analyze_schema(doc, url), "performance")

AnalyzePerformance ==
    Inspect("performance", _analyze_performance(doc, url), "mobile_friendliness")

AnalyzeMobileFriendliness ==
    Inspect("mobile_friendliness", _analyze_mobile_friendliness(doc, url), "ssl")

AnalyzeSsl == Inspect("ssl", _analyze_ssl(doc, url), "report")

\* return self._generate_report(); app.py sends the report with jsonify
GenerateReport ==
    /\ pc = "report"
    /\ LET r == _generate_report(url, issues, warnings, info, clock)
       IN /\ ret' = <<r>>
          /\ reports' = Append(reports, [obj |-> obj, call |-> calls, report |-> r])
    /\ pc' = "returned"
    /\ UNCHANGED <<url, doc, obj, calls, issues, warnings, info, exc,
                   fetchError, ran, last, before, clock>>

Next ==
    \/ Construct
    \/ Call
    \/ FetchOk
    \/ FetchFail
    \/ AnalyzeTitle
    \/ AnalyzeMetaDescription
    \/ AnalyzeHeadings
    \/ AnalyzeImages
    \/ AnalyzeCanonical
    \/ AnalyzeRobots
    \/ AnalyzeSchema
    \/ AnalyzePerformance
    \/ AnalyzeMobileFriendliness
    \/ AnalyzeSsl
    \/ GenerateReport

Spec == Init /\ [][Next]_vars

TypeOK ==
    /\ pc \in {"idle", "fetch", "title", "meta_description", "headings", "images",
               "canonical", "robots", "schema", "performance",
               "mobile_friendliness", "ssl", "report", "returned", "raised"}
    /\ Len(ret) <= 1
    /\ clock <= MaxRuns

(***************************************************************************)
(* Properties.                                                             *)
(***************************************************************************)
\* the severity of a finding: the label that leads its impact string
Severity(f) ==
    LET k == CHOOSE k \in 1..Len(f.impact) :
                 /\ SubSeq(f.impact, k, k) = " "
                 /\ \A j \in 1..(k - 1) : SubSeq(f.impact, j, j) # " "
    IN SubSeq(f.impact, 1, k - 1)

\* the inspector invoked last by the current analyze() call is name
JustRan(name) == ran # <<>> /\ ran[Len(ran)] = name

IsReport(v) == "critical_issues" \in DOMAIN v

\* a is b with some elements left out
RECURSIVE IsSubSeq(_, _)
IsSubSeq(a, b) ==
    IF a = <<>> THEN TRUE
    ELSE IF b = <<>> THEN FALSE
    ELSE IF Head(a) = Head(b) THEN IsSubSeq(Tail(a), Tail(b))
    ELSE IsSubSeq(a, Tail(b))

InspectorOrder ==
    << "title", "meta_description", "headings", "images", "canonical", "robots",
       "schema", "performance", "mobile_friendliness", "ssl" >>

\* C1: once the page is fetched and parsed, analyze() ends by returning a
\* value; no exception escapes analyze().
C1_NoExceptionEscapes == pc # "raised" /\ exc = ""

\* C2: the canonical inspector appends exactly one High issue "Missing
\* canonical tag" when the page has no canonical link, exactly one Medium
\* warning when the canonical href differs from the target URL, and nothing
\* when the href equals the target URL.
C2_CanonicalFindings ==
    JustRan("canonical") =>
        IF doc.canonical = <<>>
        THEN /\ last.exc = ""
             /\ Len(last.issues) = 1
             /\ last.issues[1].issue = "Missing canonical tag"
             /\ Severity(last.issues[1]) = "High"
             /\ last.warnings = <<>>
             /\ last.info = <<>>
        ELSE IF doc.canonical[1] = url
        THEN last = Nothing
        ELSE IF doc.canonical[1] # ""
        THEN /\ last.exc = ""
             /\ last.issues = <<>>
             /\ Len(last.warnings) = 1
             /\ Severity(last.warnings[1]) = "Medium"
             /\ last.info = <<>>
        ELSE TRUE

InfoBare ==
    \A k \in DOMAIN info : DOMAIN info[k] \cap {"impact", "recommendation"} = {}

\* C3 as stated: every issue has severity Critical, High or Medium, every
\* warning has severity Medium or Low, and no info entry carries an impact or
\* a recommendation.
C3_SeverityBuckets ==
    /\ \A k \in DOMAIN issues : Severity(issues[k]) \in {"Critical", "High", "Medium"}
    /\ \A k \in DOMAIN warnings : Severity(warnings[k]) \in {"Medium", "Low"}
    /\ InfoBare

\* C3 as amended: every issue has severity Critical, High or Medium, every
\* warning has severity High, Medium or Low, a High warning being the
\* robots inspector's "Page is set to nofollow", and no info entry carries an
\* impact or a recommendation.
C3_SeverityBucketsAmended ==
    /\ \A k \in DOMAIN issues : Severity(issues[k]) \in {"Critical", "High", "Medium"}
    /\ \A k \in DOMAIN warnings :
         /\ Severity(warnings[k]) \in {"High", "Medium", "Low"}
         /\ Severity(warnings[k]) = "High" =>
                warnings[k].issue = "Page is set to nofollow"
    /\ InfoBare

C3_Witness ==
    /\ \E k \in DOMAIN issues : Severity(issues[k]) = "Critical"
    /\ \E k \in DOMAIN issues : Severity(issues[k]) = "High"
    /\ \E k \in DOMAIN warnings : Severity(warnings[k]) = "High"
    /\ \E k \in DOMAIN warnings : Severity(warnings[k]) = "Low"
    /\ info # <<>>

\* two reports agree in everything but scan_date
SameFindings(a, b) ==
    /\ a.critical_issues = b.critical_issues
    /\ a.high_impact_issues = b.high_impact_issues
    /\ a.warnings = b.warnings
    /\ a.info = b.info
    /\ a.total_issues = b.total_issues
    /\ a.total_warnings = b.total_warnings

\* C4 as stated: any two reports of the same page and URL agree in
\* everything but scan_date, also when the second comes from a second
\* analyze() call on the same analyzer object.
C4_Idempotent ==
    \A i, j \in DOMAIN reports :
        SameFindings(reports[i].report, reports[j].report)

\* C4 as amended: any two reports of the same page and URL that come each
\* from the first analyze() call on a newly constructed analyzer agree in
\* everything but scan_date.
C4_IdempotentFreshAnalyzer ==
    \A i, j \in DOMAIN reports :
        (reports[i].call = 1 /\ reports[j].call = 1) =>
            SameFindings(reports[i].report, reports[j].report)

C4_Witness ==
    \E i, j \in DOMAIN reports :
        /\ reports[i].obj # reports[j].obj
        /\ reports[i].call = 1
        /\ reports[j].call = 1
        /\ reports[i].report.scan_date # reports[j].report.scan_date
        /\ reports[i].report.total_issues > 1
        /\ reports[i].report.total_warnings > 0
        /\ reports[i].report.info # <<>>

\* C5: when the fetch fails, analyze() returns a value whose only field is
\* error, "Failed to fetch URL: " followed by the details; no exception
\* escapes, no inspector runs and the three accumulators are as they were
\* when analyze() was called.
C5_FetchFailure ==
    fetchError # <<>> =>
        /\ pc = "returned"
        /\ exc = ""
        /\ Len(ret) = 1
        /\ DOMAIN ret[1] = {"error"}
        /\ ret[1].error = "Failed to fetch URL: " \o fetchError[1]
        /\ ran = <<>>
        /\ Snapshot(issues, warnings, info) = before

C5_Witness ==
    /\ fetchError # <<>>
    /\ pc = "returned"
    /\ calls = 2
    /\ issues # <<>>
    /\ warnings # <<>>

\* what C6 and C10 say of a finding list: exactly one finding, of this severity
OneOf(findings, severity) ==
    Len(findings) = 1 /\ Severity(findings[1]) = severity

\* C6 as stated: the title inspector appends exactly one Critical issue when
\* the page has no title element; for a title element whose string has
\* length L, one High issue when L < 30 (from 0 on), one Medium issue when
\* L > 60 and nothing when 30 <= L <= 60.
C6_TitleFindings ==
    JustRan("title") =>
        /\ last.exc = "" /\ last.warnings = <<>> /\ last.info = <<>>
        /\ IF doc.title = <<>> THEN OneOf(last.issues, "Critical")
           ELSE IF Len(doc.title[1]) < 30 THEN OneOf(last.issues, "High")
           ELSE IF Len(doc.title[1]) > 60 THEN OneOf(last.issues, "Medium")
           ELSE last.issues = <<>>

\* C6 as amended: the title inspector appends exactly one Critical issue
\* when the page has no title element or its title element has no string
\* (L = 0); one High issue when 1 <= L < 30, one Medium issue when L > 60
\* and nothing when 30 <= L <= 60.
C6_TitleFindingsAmended ==
    JustRan("title") =>
        /\ last.exc = "" /\ last.warnings = <<>> /\ last.info = <<>>
        /\ IF doc.title = <<>> \/ Len(doc.title[1]) = 0
           THEN OneOf(last.issues, "Critical")
           ELSE IF Len(doc.title[1]) < 30 THEN OneOf(last.issues, "High")
           ELSE IF Len(doc.title[1]) > 60 THEN OneOf(last.issues, "Medium")
           ELSE last.issues = <<>>

C6_Witness ==
    /\ JustRan("title")
    /\ doc.title = <<"">>
    /\ OneOf(last.issues, "Critical")

\* C7: in a report, critical_issues holds only issues of severity Critical
\* and high_impact_issues only issues of severity High, each in the order
\* they have in self.issues, and no finding is in both.
C7_ReportPartition ==
    (pc = "returned" /\ ret # <<>> /\ IsReport(ret[1])) =>
        LET r == ret[1]
        IN /\ \A k \in DOMAIN r.critical_issues :
                Severity(r.critical_issues[k]) = "Critical"
           /\ \A k \in DOMAIN r.high_impact_issues :
                Severity(r.high_impact_issues[k]) = "High"
           /\ IsSubSeq(r.critical_issues, issues)
           /\ IsSubSeq(r.high_impact_issues, issues)
           /\ \A a \in DOMAIN r.critical_issues, b \in DOMAIN r.high_impact_issues :
                r.critical_issues[a] # r.high_impact_issues[b]

C7_Witness ==
    /\ pc = "returned"
    /\ ret # <<>>
    /\ IsReport(ret[1])
    /\ Len(ret[1].critical_issues) > 1
    /\ Len(ret[1].high_impact_issues) > 1
    /\ ret[1].total_issues > Len(ret[1].critical_issues) + Len(ret[1].high_impact_issues)

\* C8: the inspectors run in the fixed order; the report is built only after
\* all ten have completed, and a call in which an inspector failed returns
\* no report.
C8_ReportAfterAllInspectors ==
    /\ Len(ran) <= Len(InspectorOrder)
    /\ ran = SubSeq(InspectorOrder, 1, Len(ran))
    /\ (pc = "report" \/ (ret # <<>> /\ IsReport(ret[1]))) =>
           ran = InspectorOrder /\ exc = ""
    /\ exc # "" =>
           /\ ret = <<>>
           /\ \A k \in DOMAIN reports :
                ~(reports[k].obj = obj /\ reports[k].call = calls)

C8_Witness ==
    /\ pc = "returned"
    /\ ret # <<>>
    /\ IsReport(ret[1])
    /\ ran = InspectorOrder

IsSkipWarning(f) == StartsWith(f.issue, "Skipped heading level")

\* C9: the headings inspector appends one "Skipped heading level" warning
\* for each heading that is more than one level deeper than the heading
\* before it in document order, and no other such warning.
C9_SkipsInDocumentOrder ==
    JustRan("headings") =>
        Len(SelectSeq(last.warnings, IsSkipWarning))
            = Cardinality({ k \in 2..Len(doc.headings) :
                              doc.headings[k] - doc.headings[k - 1] > 1 })

\* C10: the meta description inspector appends exactly one High issue when
\* the page has no description meta element; with one whose content has
\* length L (0 when empty or absent), exactly one Medium warning when
\* L < 70, exactly one Low warning when L > 155, nothing otherwise.
C10_DescriptionFindings ==
    JustRan("meta_description") =>
        /\ last.exc = "" /\ last.info = <<>>
        /\ IF doc.description = <<>>
           THEN OneOf(last.issues, "High") /\ last.warnings = <<>>
           ELSE /\ last.issues = <<>>
                /\ IF Len(doc.description[1]) < 70 THEN OneOf(last.warnings, "Medium")
                   ELSE IF Len(doc.description[1]) > 155 THEN OneOf(last.warnings, "Low")
                   ELSE last.warnings = <<>>

====
